---- MODULE Spec2Model ----
(***************************************************************************)
(* Chainway UHF RFID bridge: the TypeScript facade (src/src/ChainwayRFID.ts),*)
(* the native module (ChainwayRfidModule.java) and the activity's key hook  *)
(* (MainActivity.kt).  The vendor SDK (RFIDWithUHFUART) and the React event *)
(* emitter are the environment: every SDK call draws its outcome from the   *)
(* outcomes a call from Java can have (a value, a failure sentinel, an      *)
(* exception, a ConfigurationException).                                    *)
(***************************************************************************)
EXTENDS Integers, Sequences, FiniteSets, TLC

(* ------------------------------ bounds --------------------------------- *)
\* how far beyond the legal power range the enumerated inputs reach
PowerSlack == 2
\* how many events are followed from their emission to the listeners
MaxEvents == 3

(* ------------------------- program constants --------------------------- *)
MinPower == 0
MaxPower == 30
KEY_TRIGGER == 280
KEY_TRIGGER_LEFT == 293
KEY_TRIGGER_RIGHT == 294
\* a key code that is no trigger, for the default handler's path
KEY_OTHER == KEY_TRIGGER + 1

EVENT_TAG_READ == "onTagRead"
EVENT_INVENTORY_START == "onInventoryStart"
EVENT_INVENTORY_STOP == "onInventoryStop"
EVENT_TRIGGER_PRESS == "onTriggerPress"
EVENT_TRIGGER_RELEASE == "onTriggerRelease"

Channels == {EVENT_TAG_READ, EVENT_INVENTORY_START, EVENT_INVENTORY_STOP,
             EVENT_TRIGGER_PRESS, EVENT_TRIGGER_RELEASE}

(* ------------------------------ inputs --------------------------------- *)
PowerInputs == (MinPower - PowerSlack) .. (MaxPower + PowerSlack)
KeyCodes == {KEY_TRIGGER, KEY_TRIGGER_LEFT, KEY_TRIGGER_RIGHT, KEY_OTHER}
Listeners == {"L1", "L2"}
NoChannel == "<none>"

\* what one call into the SDK can do, seen from Java
SdkOutcomes == {"ok", "fail", "throw", "throwConfig"}
\* calls whose return type has no failure sentinel (int, or the state itself)
SdkOutcomesNoSentinel == {"ok", "throw", "throwConfig"}
Throws == {"throw", "throwConfig"}

NullRef == "null"
Instance == "RFIDWithUHFUART"

\* a Java String reference that is null, and a map key that was never put
NullStr == "<null>"
Absent == "<absent>"
\* the UHFTAGInfo references the SDK hands over: a null reference, or an object
\* whose getters return these values (getCount is an int)
NullTagInfo == [ref |-> "null", epc |-> NullStr, tid |-> NullStr, user |-> NullStr,
                rssi |-> NullStr, count |-> 0]
TagInputs ==
  { NullTagInfo,
    [ref |-> "obj", epc |-> "E1", tid |-> NullStr, user |-> NullStr,
     rssi |-> "-50", count |-> 1],
    [ref |-> "obj", epc |-> NullStr, tid |-> "T1", user |-> "U1",
     rssi |-> NullStr, count |-> 2] }
\* tags with an EPC as the SDK reports them in an inventory, getCount() being
\* the SDK's own number
CountedTags ==
  { [ref |-> "obj", epc |-> e, tid |-> NullStr, user |-> NullStr, rssi |-> "-50", count |-> n] :
      e \in {"E1", "E2"}, n \in {1, 2} }
\* the frequency regions getConstants publishes
FREQ_CHINA_840 == 1
FREQ_CHINA_920 == 2
FREQ_EUROPE == 4
FREQ_USA == 8
FREQ_KOREA == 22
FREQ_JAPAN == 50
FreqModes == {FREQ_CHINA_840, FREQ_CHINA_920, FREQ_EUROPE, FREQ_USA, FREQ_KOREA, FREQ_JAPAN}
\* the region the SDK reports before any was set: not a number the bridge knows
FreqDefault == 0 - 1

\* the inventory modes of the SDK: the one it starts in, setEPCMode's and
\* setEPCAndTIDMode's
MODE_DEFAULT == "default"
MODE_EPC == "EPC"
MODE_EPC_TID == "EPC+TID"
\* the tags the SDK reports in a mode: with the mode on EPC only it reads
\* neither the TID nor the USER bank
TagsInMode(mode) ==
  IF mode = MODE_EPC
  THEN {t \in TagInputs : t.ref = "null" \/ (t.tid = NullStr /\ t.user = NullStr)}
  ELSE TagInputs
\* the params of an event emitted with null params
NoParams == [epc |-> "-", tid |-> "-", user |-> "-", rssi |-> "-", count |-> "-"]

VARIABLES
  rfidReader,       \* ChainwayRfidModule.rfidReader: NullRef or Instance
  sdkInventorying,  \* SDK: continuous inventory is running
  sdkCallback,      \* SDK: an inventory callback is registered
  sdkInstances,     \* SDK: the reader objects getInstance has handed out
  sdkMode,          \* SDK: the inventory mode
  sdkFreq,          \* SDK: the frequency region
  ctx,              \* React context: "starting", "active", "destroyed"
  subs,             \* JS: the channel each listener is subscribed to
  removedFrom,      \* relay: the channel a listener's subscription was removed from
  traced,           \* relay: emissions are followed through the threads
  emitted,          \* relay: how many events were handed to the emitter
  queue,            \* relay: per thread, the events waiting for their listeners
  cur,              \* relay: per thread, the event whose listeners it is running
  received,         \* relay: per listener, the events its callback was run with
  owed,             \* relay: per listener, the events emitted to it
  pcStart,          \* module thread: where a startInventory run step by step stands
  nativeCalls,      \* example client: the calls handed to the native module, not yet run
  isReading,        \* example client: the isReading state
  tags,             \* example client: the tag store, epc -> count
  reads,            \* example client: tag-read events handled per epc since the last clear
  handled,          \* example client: the trigger events its listeners have handled
  doubleStart,      \* SDK: startInventoryTag was called while inventorying
  sdkFailed,        \* SDK: a call made for the example client did not succeed
  everInitOK,       \* history: some init call has resolved true
  freed,            \* history: free resolved true and no init was called since
  last              \* the last facade call or hardware hook, and what it did

sdkVars == <<sdkInventorying, sdkCallback, sdkMode, sdkFreq>>
histVars == <<everInitOK, freed>>
orderVars == <<traced, emitted, queue, cur, received, owed>>
asyncVars == <<pcStart, nativeCalls, isReading, tags, reads, handled, doubleStart, sdkFailed>>
vars == <<rfidReader, sdkInstances, sdkInventorying, sdkCallback, sdkMode, sdkFreq, ctx,
          subs, removedFrom, everInitOK, freed, last, orderVars, asyncVars>>

(* --------------------------- call records ------------------------------ *)
NoArg == 0 - 1000

\* the call made just before this one: none recorded
NoPrev == [op |-> "-", ok |-> FALSE, arg |-> NoArg]

NewCall(op, arg) ==
  [op |-> op, arg |-> arg, native |-> FALSE, outcome |-> "pending", code |-> "",
   value |-> "", sdk |-> <<>>, ret |-> "none", emits |-> <<>>, tag |-> NoParams,
   settles |-> 0, escaped |-> FALSE, nativeArg |-> NoArg, initOK |-> FALSE,
   afterFree |-> FALSE, num |-> NoArg, prev |-> NoPrev, dropped |-> 0]

\* promise.resolve / promise.reject: the first settlement decides the promise
Resolve(c, v) ==
  [c EXCEPT !.outcome = IF @ = "pending" THEN "resolved" ELSE @,
            !.value = IF c.outcome = "pending" THEN v ELSE @,
            !.settles = @ + 1]

Reject(c, code) ==
  [c EXCEPT !.outcome = IF @ = "pending" THEN "rejected" ELSE @,
            !.code = IF c.outcome = "pending" THEN code ELSE @,
            !.settles = @ + 1]

\* the native method was entered, with this argument
Native(c) == [c EXCEPT !.native = TRUE, !.nativeArg = c.arg]

\* one SDK method invoked with its (integer) argument and what it did
SdkInvoke(c, m, a, r) == [c EXCEPT !.sdk = Append(@, [m |-> m, a |-> a]), !.ret = r]

BoolStr(b) == IF b THEN "true" ELSE "false"

(* ------------------- ChainwayRfidModule helper methods ------------------ *)
\* String.valueOf(int) on the counts the inputs carry
StringValueOf(n) == CASE n = 0 -> "0" [] n = 1 -> "1" [] n = 2 -> "2" [] OTHER -> "n"

\* a getter's value, or "" when the getter returned null
OrEmpty(v) == IF v # NullStr THEN v ELSE ""

\* createTagMap: an empty map for a null tag, else the five keys
createTagMap(tagInfo) ==
  IF tagInfo.ref # "null"
  THEN [epc |-> OrEmpty(tagInfo.epc), tid |-> OrEmpty(tagInfo.tid),
        user |-> OrEmpty(tagInfo.user), rssi |-> OrEmpty(tagInfo.rssi),
        count |-> StringValueOf(tagInfo.count)]
  ELSE [epc |-> Absent, tid |-> Absent, user |-> Absent, rssi |-> Absent,
        count |-> Absent]

\* reactContext.getJSModule(RCTDeviceEventEmitter.class).emit(..) with the
\* React instance gone: the runtime either drops the event or throws
EmitOutcomes == {"dropped", "throw"}
EmitThrows(em) == ctx # "active" /\ em = "throw"

\* the listeners the emitter calls for an event of this channel: those
\* subscribed to it at that moment (NativeEventEmitter.addListener / remove)
Subscribed(eventName) == {l \in Listeners : subs[l] = eventName}

\* sendEvent, when the emitter was obtained: emit(eventName, params) reaches
\* every subscribed listener once (the hand-over to the JS thread and the
\* listeners' invocation are taken as one step)
sendEvent(c, eventName, params) ==
  [c EXCEPT !.emits = Append(@, [name |-> eventName, params |-> params,
                                 to |-> Subscribed(eventName)])]

(* ----------------------- ChainwayRfidModule methods --------------------- *)
\* Each *Call operator is the promise logic of one @ReactMethod: g and r are
\* the outcomes of the SDK calls it makes.

\* init with the sentinel reported under the exception's code
initCallErrorOnSentinel(g, r) ==
  LET c0 == Native(NewCall("init", NoArg))
      c1 == SdkInvoke(c0, "getInstance", NoArg, g)
      c2 == SdkInvoke(c1, "init", NoArg, r)
  IN  IF g = "throwConfig" THEN Reject(c1, "CONFIG_ERROR")
      ELSE IF g = "throw" THEN Reject(c1, "INIT_ERROR")
      ELSE IF r = "ok" THEN Resolve(c2, "true")
      ELSE IF r = "throwConfig" THEN Reject(c2, "CONFIG_ERROR")
      ELSE Reject(c2, "INIT_ERROR")

\* init with the ConfigurationException handler lost to the general one
initCallNoConfigCatch(g, r) ==
  LET c0 == Native(NewCall("init", NoArg))
      c1 == SdkInvoke(c0, "getInstance", NoArg, g)
      c2 == SdkInvoke(c1, "init", NoArg, r)
  IN  IF g \in Throws THEN Reject(c1, "INIT_ERROR")
      ELSE IF r = "ok" THEN Resolve(c2, "true")
      ELSE IF r = "fail" THEN Reject(c2, "INIT_FAILED")
      ELSE Reject(c2, "INIT_ERROR")

initCall(g, r) ==
  LET c0 == Native(NewCall("init", NoArg))
      c1 == SdkInvoke(c0, "getInstance", NoArg, g)
      c2 == SdkInvoke(c1, "init", NoArg, r)
  IN  IF g = "throwConfig" THEN Reject(c1, "CONFIG_ERROR")
      ELSE IF g = "throw" THEN Reject(c1, "INIT_ERROR")
      ELSE IF r = "ok" THEN Resolve(c2, "true")
      ELSE IF r = "fail" THEN Reject(c2, "INIT_FAILED")
      ELSE IF r = "throwConfig" THEN Reject(c2, "CONFIG_ERROR")
      ELSE Reject(c2, "INIT_ERROR")

\* free tests the handle inside the try and resolves whatever the SDK returned
freeCall(r) ==
  LET c0 == Native(NewCall("free", NoArg))
      c1 == SdkInvoke(c0, "free", NoArg, r)
  IN  IF rfidReader # NullRef
      THEN IF r \in Throws THEN Reject(c1, "FREE_ERROR")
           ELSE Resolve(c1, BoolStr(r = "ok"))
      ELSE Reject(c0, "NOT_INITIALIZED")

\* the boolean methods with a test of the result that rejects a false
BoolCallRejectsFalse(op, m, a, err, r) ==
  LET c0 == Native(NewCall(op, a))
      c1 == SdkInvoke(c0, m, a, r)
  IN  IF rfidReader = NullRef THEN Reject(c0, "NOT_INITIALIZED")
      ELSE IF r \in Throws THEN Reject(c1, err)
      ELSE IF r = "ok" THEN Resolve(c1, "true")
      ELSE Reject(c1, err)

\* the boolean methods calling the SDK a second time after a false
BoolCallRetriesFalse(op, m, a, err, r) ==
  LET c0 == Native(NewCall(op, a))
      c1 == SdkInvoke(c0, m, a, r)
      c2 == SdkInvoke(c1, m, a, r)
  IN  IF rfidReader = NullRef THEN Reject(c0, "NOT_INITIALIZED")
      ELSE IF r \in Throws THEN Reject(c1, err)
      ELSE IF r = "ok" THEN Resolve(c1, "true")
      ELSE Resolve(c2, "false")

\* the shape shared by the methods that resolve the SDK's boolean as it is
BoolCall(op, m, a, err, r) ==
  LET c0 == Native(NewCall(op, a))
      c1 == SdkInvoke(c0, m, a, r)
  IN  IF rfidReader = NullRef THEN Reject(c0, "NOT_INITIALIZED")
      ELSE IF r \in Throws THEN Reject(c1, err)
      ELSE Resolve(c1, BoolStr(r = "ok"))

\* the null-testing methods with no catch block around the SDK call
NullCheckedCallNoCatch(op, m, err, nullErr, val, r) ==
  LET c0 == Native(NewCall(op, NoArg))
      c1 == SdkInvoke(c0, m, NoArg, r)
  IN  IF rfidReader = NullRef THEN Reject(c0, "NOT_INITIALIZED")
      ELSE IF r \in Throws THEN [c1 EXCEPT !.escaped = TRUE]
      ELSE IF r = "ok" THEN Resolve(c1, val)
      ELSE Reject(c1, nullErr)

\* the shape shared by the methods that test the SDK's result for null
NullCheckedCall(op, m, err, nullErr, val, r) ==
  LET c0 == Native(NewCall(op, NoArg))
      c1 == SdkInvoke(c0, m, NoArg, r)
  IN  IF rfidReader = NullRef THEN Reject(c0, "NOT_INITIALIZED")
      ELSE IF r \in Throws THEN Reject(c1, err)
      ELSE IF r = "ok" THEN Resolve(c1, val)
      ELSE Reject(c1, nullErr)

\* the shape shared by the methods that resolve an int the SDK returned
\* n is the int the SDK returns
IntCall(op, m, err, r, n) ==
  LET c0 == Native(NewCall(op, NoArg))
      c1 == SdkInvoke(c0, m, NoArg, r)
  IN  IF rfidReader = NullRef THEN Reject(c0, "NOT_INITIALIZED")
      ELSE IF r \in Throws THEN Reject(c1, err)
      ELSE [Resolve(c1, "int") EXCEPT !.num = n]

getVersionCall(r) == NullCheckedCall("getVersion", "getVersion", "VERSION_ERROR", "VERSION_ERROR", "version", r)

\* setPower handing the SDK a fixed level instead of its parameter
setPowerCallFixedLevel(power, r) ==
  [BoolCall("setPower", "setPower", MaxPower, "POWER_ERROR", r) EXCEPT !.arg = power]

setPowerCall(power, r) == BoolCall("setPower", "setPower", power, "POWER_ERROR", r)

getPowerCall(r) == IntCall("getPower", "getPower", "POWER_ERROR", r, NoArg)

\* setFrequencyMode handing the SDK one fixed region instead of its parameter
setFrequencyModeCallFixedRegion(mode, r) ==
  [BoolCall("setFrequencyMode", "setFrequencyMode", FREQ_USA, "FREQUENCY_ERROR", r)
     EXCEPT !.arg = mode]

setFrequencyModeCall(mode, r) == BoolCall("setFrequencyMode", "setFrequencyMode", mode, "FREQUENCY_ERROR", r)

getFrequencyModeCall(r) ==
  IntCall("getFrequencyMode", "getFrequencyMode", "FREQUENCY_ERROR", r, sdkFreq)


\* startInventory announcing the start before it looked at the SDK's result
startInventoryCallEmitsFirst(cb, r, em) ==
  LET c0 == Native(NewCall("startInventory", NoArg))
      c1 == SdkInvoke(c0, "setInventoryCallback", NoArg, cb)
      c2 == SdkInvoke(c1, "startInventoryTag", NoArg, r)
      c3 == sendEvent(c2, EVENT_INVENTORY_START, NoParams)
  IN  IF rfidReader = NullRef THEN Reject(c0, "NOT_INITIALIZED")
      ELSE IF cb \in Throws THEN Reject(c1, "START_ERROR")
      ELSE IF r \in Throws THEN Reject(c2, "START_ERROR")
      ELSE IF EmitThrows(em) THEN Reject(c2, "START_ERROR")
      ELSE IF r = "ok" THEN Resolve(c3, "true")
      ELSE Reject(c3, "START_ERROR")

\* startInventory: cb is what setInventoryCallback did, r what startInventoryTag
\* did; an exception of sendEvent lands in the same catch as the SDK's
\* startInventory registering its callback before it tests the handle
startInventoryCallTestsLate(cb, r, em) ==
  LET c0 == Native(NewCall("startInventory", NoArg))
      c1 == SdkInvoke(c0, "setInventoryCallback", NoArg, cb)
      c2 == SdkInvoke(c1, "startInventoryTag", NoArg, r)
  IN  IF rfidReader = NullRef THEN Reject(c1, "NOT_INITIALIZED")
      ELSE IF cb \in Throws THEN Reject(c1, "START_ERROR")
      ELSE IF r \in Throws THEN Reject(c2, "START_ERROR")
      ELSE IF r = "ok"
           THEN IF EmitThrows(em)
                THEN Reject(c2, "START_ERROR")
                ELSE Resolve(sendEvent(c2, EVENT_INVENTORY_START, NoParams), "true")
           ELSE Reject(c2, "START_ERROR")

startInventoryCall(cb, r, em) ==
  LET c0 == Native(NewCall("startInventory", NoArg))
      c1 == SdkInvoke(c0, "setInventoryCallback", NoArg, cb)
      c2 == SdkInvoke(c1, "startInventoryTag", NoArg, r)
  IN  IF rfidReader = NullRef THEN Reject(c0, "NOT_INITIALIZED")
      ELSE IF cb \in Throws THEN Reject(c1, "START_ERROR")
      ELSE IF r \in Throws THEN Reject(c2, "START_ERROR")
      ELSE IF r = "ok"
           THEN IF EmitThrows(em)
                THEN Reject(c2, "START_ERROR")
                ELSE Resolve(sendEvent(c2, EVENT_INVENTORY_START, NoParams), "true")
           ELSE Reject(c2, "START_ERROR")

\* stopInventory resolving before it announces the stop
stopInventoryCallResolvesFirst(r, em) ==
  LET c0 == Native(NewCall("stopInventory", NoArg))
      c1 == SdkInvoke(c0, "stopInventory", NoArg, r)
  IN  IF rfidReader = NullRef THEN Reject(c0, "NOT_INITIALIZED")
      ELSE IF r \in Throws THEN Reject(c1, "STOP_ERROR")
      ELSE IF r = "ok"
           THEN IF EmitThrows(em)
                THEN Reject(Resolve(c1, "true"), "STOP_ERROR")
                ELSE sendEvent(Resolve(c1, "true"), EVENT_INVENTORY_STOP, NoParams)
           ELSE Reject(c1, "STOP_ERROR")

stopInventoryCall(r, em) ==
  LET c0 == Native(NewCall("stopInventory", NoArg))
      c1 == SdkInvoke(c0, "stopInventory", NoArg, r)
  IN  IF rfidReader = NullRef THEN Reject(c0, "NOT_INITIALIZED")
      ELSE IF r \in Throws THEN Reject(c1, "STOP_ERROR")
      ELSE IF r = "ok"
           THEN IF EmitThrows(em)
                THEN Reject(c1, "STOP_ERROR")
                ELSE Resolve(sendEvent(c1, EVENT_INVENTORY_STOP, NoParams), "true")
           ELSE Reject(c1, "STOP_ERROR")

\* inventorySingleTag resolving the map of whatever the SDK returned
inventorySingleTagCallNoNullTest(r, tagInfo) ==
  LET c0 == Native(NewCall("inventorySingleTag", NoArg))
      c1 == SdkInvoke(c0, "inventorySingleTag", NoArg, r)
  IN  IF rfidReader = NullRef THEN Reject(c0, "NOT_INITIALIZED")
      ELSE IF r \in Throws THEN Reject(c1, "READ_ERROR")
      ELSE IF r = "ok"
           THEN Resolve([c1 EXCEPT !.tag = createTagMap(tagInfo)], "tag")
           ELSE Resolve([c1 EXCEPT !.tag = createTagMap(NullTagInfo)], "tag")

\* inventorySingleTag: "ok" is a tag object, "fail" the null the SDK returns
\* when it found none
inventorySingleTagCall(r, tagInfo) ==
  LET c0 == Native(NewCall("inventorySingleTag", NoArg))
      c1 == SdkInvoke(c0, "inventorySingleTag", NoArg, r)
  IN  IF rfidReader = NullRef THEN Reject(c0, "NOT_INITIALIZED")
      ELSE IF r \in Throws THEN Reject(c1, "READ_ERROR")
      ELSE IF r = "ok"
           THEN Resolve([c1 EXCEPT !.tag = createTagMap(tagInfo)], "tag")
           ELSE Reject(c1, "NO_TAG")

readDataCall(r) == NullCheckedCall("readData", "readData", "READ_ERROR", "READ_ERROR", "data", r)

writeDataCall(r) == BoolCall("writeData", "writeData", NoArg, "WRITE_ERROR", r)

writeEPCCall(r) == BoolCall("writeEPC", "writeDataToEpc", NoArg, "WRITE_ERROR", r)

setFilterCall(r) == BoolCall("setFilter", "setFilter", NoArg, "FILTER_ERROR", r)

lockTagCall(r) == BoolCall("lockTag", "lockMem", NoArg, "LOCK_ERROR", r)

killTagCall(r) == BoolCall("killTag", "killTag", NoArg, "KILL_ERROR", r)

\* isInventorying resolves the SDK's own flag
\* isInventorying answering from a flag of its own, raised by startInventory
isInventoryingCallOwnFlag(r) ==
  LET c0 == Native(NewCall("isInventorying", NoArg))
      c1 == SdkInvoke(c0, "isInventorying", NoArg, r)
  IN  IF rfidReader = NullRef THEN Reject(c0, "NOT_INITIALIZED")
      ELSE IF r \in Throws THEN Reject(c1, "STATUS_ERROR")
      ELSE Resolve(c1, BoolStr(sdkCallback))

isInventoryingCall(r) ==
  LET c0 == Native(NewCall("isInventorying", NoArg))
      c1 == SdkInvoke(c0, "isInventorying", NoArg, r)
  IN  IF rfidReader = NullRef THEN Reject(c0, "NOT_INITIALIZED")
      ELSE IF r \in Throws THEN Reject(c1, "STATUS_ERROR")
      ELSE Resolve(c1, BoolStr(sdkInventorying))

setEPCModeCall(r) == BoolCall("setEPCMode", "setEPCMode", NoArg, "MODE_ERROR", r)

setEPCAndTIDModeCall(r) == BoolCall("setEPCAndTIDMode", "setEPCAndTIDMode", NoArg, "MODE_ERROR", r)

(* ------------------------- ChainwayRFID (facade) ------------------------ *)
\* the range test with its upper limit one too high
PowerValidOffByOne(power) == ~(power < MinPower \/ power > MaxPower + 1)

\* the range test of ChainwayRFID.setPower
PowerValid(power) == ~(power < MinPower \/ power > MaxPower)

\* ChainwayRFID.setPower: a rejected promise without entering the native
\* module, or the native call with the same number
setPowerFacade(power, r) ==
  IF ~PowerValid(power)
  THEN Reject(NewCall("setPower", power), "VALIDATION")
  ELSE [setPowerCall(power, r) EXCEPT !.arg = power]

(* ------------------------------ MainActivity ---------------------------- *)
\* the trigger test without the right-hand trigger's code
IsTriggerKeyNoRight(keyCode) ==
  keyCode = KEY_TRIGGER \/ keyCode = KEY_TRIGGER_LEFT

IsTriggerKey(keyCode) ==
  keyCode = KEY_TRIGGER \/ keyCode = KEY_TRIGGER_LEFT \/ keyCode = KEY_TRIGGER_RIGHT

\* sendTriggerEvent: currentReactContext?.getJSModule(..)?.emit(eventName, null)
\* with no React context the ?. chain ends in nothing: the event is dropped
sendTriggerEvent(c, eventName) ==
  IF ctx = "active" THEN sendEvent(c, eventName, NoParams)
  ELSE [c EXCEPT !.dropped = @ + 1]

\* onKeyDown / onKeyUp: a trigger key is consumed, any other goes to super
keyHook(op, keyCode, eventName) ==
  LET c0 == [NewCall(op, keyCode) EXCEPT !.outcome = "returned"]
  IN  IF IsTriggerKey(keyCode)
      THEN [sendTriggerEvent(c0, eventName) EXCEPT !.value = "true"]
      ELSE [c0 EXCEPT !.value = "super"]

\* the IUHFInventoryCallback of startInventory, run on the SDK's thread:
\* sendTagReadEvent -> createTagMap, sendEvent; an exception of sendEvent has
\* no handler here and leaves the bridge into the SDK's thread
callbackCall(tagInfo, em) ==
  LET c0 == [NewCall("callback", NoArg) EXCEPT !.outcome = "returned",
                                              !.tag = createTagMap(tagInfo)]
  IN  IF EmitThrows(em)
      THEN [c0 EXCEPT !.escaped = TRUE]
      ELSE sendEvent(c0, EVENT_TAG_READ, createTagMap(tagInfo))


\* a reader object made anew by each call that finds one already made
getInstanceFresh(made) == IF made = {} THEN Instance ELSE "RFIDWithUHFUART#2"

\* RFIDWithUHFUART.getInstance(): the SDK's one reader object, whatever it
\* handed out before
getInstance(made) == Instance

(* ------------------------------- state ---------------------------------- *)
\* the threads of the application: the JS thread, the SDK's callback thread,
\* the UI thread of the key hooks and the native modules' thread
JS == "js"
Threads == {JS, "sdk", "ui", "module"}
ThreadOf(op) ==
  IF op = "callback" THEN "sdk"
  ELSE IF op \in {"onKeyDown", "onKeyUp"} THEN "ui"
  ELSE "module"

\* listeners run by the thread that called emit
ListenerThreadOfCaller(caller) == caller

\* RCTDeviceEventEmitter.emit: the listeners are run by the JS thread,
\* whichever thread called emit
ListenerThread(caller) == JS

\* an event put in front of the ones already waiting
handOverAtFront(q, e) == <<e>> \o q

\* emit queues the event behind the ones already waiting for that thread
handOver(q, e) == Append(q, e)

\* what a message to the JS thread says of a promise: nothing, for an event
NoThen == [op |-> "-", h |-> "-", outcome |-> "-", value |-> "-"]

NoListener == "-"
Idle == [n |-> 0, name |-> "", todo |-> {}, active |-> NoListener]

Base ==
  /\ rfidReader = NullRef
  /\ sdkInventorying = FALSE
  /\ sdkCallback = FALSE
  /\ sdkInstances = {}
  /\ sdkMode = MODE_DEFAULT
  /\ sdkFreq = FreqDefault
  /\ ctx = "starting"
  /\ subs = [l \in Listeners |-> NoChannel]
  /\ removedFrom = [l \in Listeners |-> NoChannel]
  /\ everInitOK = FALSE
  /\ freed = FALSE
  /\ last = NewCall("none", NoArg)
  /\ emitted = 0
  /\ queue = [t \in Threads |-> <<>>]
  /\ cur = [t \in Threads |-> Idle]
  /\ received = [l \in Listeners |-> <<>>]
  /\ owed = [l \in Listeners |-> <<>>]

\* nothing under way in the module's thread or in the example client
Quiet ==
  /\ pcStart = "idle"
  /\ nativeCalls = <<>>
  /\ isReading = FALSE
  /\ tags = <<>>
  /\ reads = <<>>
  /\ handled = <<>>
  /\ doubleStart = FALSE
  /\ sdkFailed = FALSE

Init == Base /\ traced = FALSE /\ Quiet

\* an inventory running on an initialized reader with the React context up,
\* as init and startInventory leave it, and the emissions from here on
\* followed through the threads
InitOrder ==
  /\ rfidReader = Instance
  /\ sdkInstances = {Instance}
  /\ sdkInventorying = TRUE
  /\ sdkCallback = TRUE
  /\ sdkMode = MODE_DEFAULT
  /\ sdkFreq = FreqDefault
  /\ ctx = "active"
  /\ subs = [l \in Listeners |-> NoChannel]
  /\ removedFrom = [l \in Listeners |-> NoChannel]
  /\ everInitOK = TRUE
  /\ freed = FALSE
  /\ last = [startInventoryCall("ok", "ok", "dropped") EXCEPT !.initOK = TRUE]
  /\ traced = TRUE
  /\ emitted = 0
  /\ queue = [t \in Threads |-> <<>>]
  /\ cur = [t \in Threads |-> Idle]
  /\ received = [l \in Listeners |-> <<>>]
  /\ owed = [l \in Listeners |-> <<>>]
  /\ Quiet

\* JS runs once the React context exists; a call already handed to the native
\* module's thread still runs after the context was destroyed
JsCallPossible == ctx # "starting"

\* the call is recorded with what it did and the history it was made in
\* the event a call emitted is handed to the thread that runs the listeners
Relayed(c) ==
  /\ IF traced /\ ctx = "active" /\ c.emits # <<>>
     THEN /\ emitted < MaxEvents
          /\ emitted' = emitted + 1
          /\ queue' = [queue EXCEPT ![ListenerThread(ThreadOf(c.op))] =
                         handOver(@, [name |-> c.emits[1].name, n |-> emitted + 1,
                                      params |-> c.emits[1].params, then |-> NoThen])]
     ELSE UNCHANGED <<emitted, queue>>
  /\ UNCHANGED <<traced, cur, received, owed>>

Record(c) ==
  /\ last' = [c EXCEPT !.initOK = everInitOK, !.afterFree = freed]
  /\ Relayed(c)

\* a call run in one piece by the native module's thread
Finish(c) ==
  /\ Record(c)
  /\ UNCHANGED asyncVars

\* what a call finds as the call made just before it, kept when that call
\* was a stopInventory or a setFrequencyMode
PrevOf(l) ==
  IF l.op \in {"stopInventory", "setFrequencyMode"}
  THEN [op |-> l.op, ok |-> (l.outcome = "resolved" /\ l.value = "true"),
        arg |-> l.arg]
  ELSE NoPrev

After(c) == [c EXCEPT !.prev = PrevOf(last)]

\* a method that changes nothing but its promise
Query(c) ==
  /\ JsCallPossible
  /\ Finish(c)
  /\ UNCHANGED <<rfidReader, sdkInstances, sdkVars, ctx, subs, removedFrom, histVars>>

(* ------------------------------ operations ------------------------------ *)
init ==
  /\ JsCallPossible
  /\ \E g \in SdkOutcomesNoSentinel, r \in SdkOutcomes :
       LET c == initCall(g, r) IN
       /\ rfidReader' = IF g = "ok" THEN getInstance(sdkInstances) ELSE rfidReader
       /\ sdkInstances' = IF g = "ok" THEN sdkInstances \cup {getInstance(sdkInstances)}
                           ELSE sdkInstances
       /\ everInitOK' = (everInitOK \/ c.outcome = "resolved")
       /\ freed' = FALSE
       /\ Finish(c)
  /\ UNCHANGED <<sdkVars, ctx, subs, removedFrom>>

\* the handle stays assigned; whether the SDK ends a running inventory when it
\* is freed is the SDK's business
free ==
  /\ JsCallPossible
  /\ \E r \in SdkOutcomes, stops \in BOOLEAN :
       LET c == freeCall(r) IN
       /\ sdkInventorying' = IF rfidReader # NullRef /\ r = "ok" /\ stops
                             THEN FALSE ELSE sdkInventorying
       /\ freed' = (freed \/ (c.outcome = "resolved" /\ c.value = "true"))
       /\ Finish(c)
  /\ UNCHANGED <<rfidReader, sdkInstances, sdkCallback, sdkMode, sdkFreq, ctx, subs, removedFrom, everInitOK>>

getVersion == \E r \in SdkOutcomes : Query(getVersionCall(r))

setPowerIn(powers) == \E power \in powers, r \in SdkOutcomes : Query(setPowerFacade(power, r))

setPower == setPowerIn(PowerInputs)

\* the powers next to the two limits of the range
setPowerEdge == setPowerIn({MinPower - 1, MinPower, MaxPower, MaxPower + 1})

getPower == \E r \in SdkOutcomesNoSentinel : Query(getPowerCall(r))

\* a region the SDK accepted is the region it reports from then on
setFrequencyModeIn(modes) ==
  /\ JsCallPossible
  /\ \E mode \in modes, r \in SdkOutcomes :
       LET c == setFrequencyModeCall(mode, r) IN
       /\ sdkFreq' = IF c.outcome = "resolved" /\ c.value = "true"
                      THEN c.sdk[Len(c.sdk)].a ELSE sdkFreq
       /\ Finish(c)
  /\ UNCHANGED <<rfidReader, sdkInstances, sdkInventorying, sdkCallback, sdkMode, ctx, subs, removedFrom, histVars>>

setFrequencyMode == setFrequencyModeIn(FreqModes)

\* the one region the example client sets
setFrequencyModeUSA == setFrequencyModeIn({FREQ_USA})

getFrequencyMode == \E r \in SdkOutcomesNoSentinel : Query(After(getFrequencyModeCall(r)))

\* what setInventoryCallback and startInventoryTag leave in the SDK
StartsSdk(cb, r) ==
  /\ sdkCallback' = (sdkCallback \/ (rfidReader # NullRef /\ cb = "ok"))
  /\ sdkInventorying' = (sdkInventorying
                         \/ (rfidReader # NullRef /\ cb = "ok" /\ r = "ok"))

startInventory ==
  /\ JsCallPossible
  /\ \E cb \in {"ok", "throw"}, r \in SdkOutcomes, em \in EmitOutcomes :
       LET c == startInventoryCall(cb, r, em) IN
       /\ StartsSdk(cb, r)
       /\ Finish(c)
  /\ UNCHANGED <<rfidReader, sdkInstances, sdkMode, sdkFreq, ctx, subs, removedFrom, histVars>>

stopInventory ==
  /\ JsCallPossible
  /\ \E r \in SdkOutcomes, em \in EmitOutcomes :
       LET c == stopInventoryCall(r, em) IN
       /\ sdkInventorying' = (sdkInventorying /\ ~(rfidReader # NullRef /\ r = "ok"))
       /\ Finish(c)
  /\ UNCHANGED <<rfidReader, sdkInstances, sdkCallback, sdkMode, sdkFreq, ctx, subs, removedFrom, histVars>>

inventorySingleTag ==
  \E r \in SdkOutcomes, tagInfo \in TagInputs :
    /\ tagInfo.ref # "null"
    /\ Query(inventorySingleTagCall(r, tagInfo))

readData == \E r \in SdkOutcomes : Query(readDataCall(r))

writeData == \E r \in SdkOutcomes : Query(writeDataCall(r))

writeEPC == \E r \in SdkOutcomes : Query(writeEPCCall(r))

setFilter == \E r \in SdkOutcomes : Query(setFilterCall(r))

lockTag == \E r \in SdkOutcomes : Query(lockTagCall(r))

killTag == \E r \in SdkOutcomes : Query(killTagCall(r))

isInventorying == \E r \in SdkOutcomesNoSentinel : Query(After(isInventoryingCall(r)))

\* a mode call that the SDK accepted changes the SDK's mode
ModeChange(c, mode) ==
  /\ JsCallPossible
  /\ sdkMode' = IF c.outcome = "resolved" /\ c.value = "true" THEN mode ELSE sdkMode
  /\ Finish(c)
  /\ UNCHANGED <<rfidReader, sdkInstances, sdkInventorying, sdkCallback, sdkFreq, ctx, subs, removedFrom, histVars>>

setEPCMode == \E r \in SdkOutcomes : ModeChange(setEPCModeCall(r), MODE_EPC)

setEPCAndTIDMode == \E r \in SdkOutcomes : ModeChange(setEPCAndTIDModeCall(r), MODE_EPC_TID)

(* --------------------------- hardware hooks ----------------------------- *)
\* a key event reaches the activity whether or not JS is running
Hook(c) ==
  /\ Finish(c)
  /\ UNCHANGED <<rfidReader, sdkInstances, sdkVars, ctx, subs, removedFrom, histVars>>

onKeyDown == \E keyCode \in KeyCodes : Hook(keyHook("onKeyDown", keyCode, EVENT_TRIGGER_PRESS))

onKeyUp == \E keyCode \in KeyCodes : Hook(keyHook("onKeyUp", keyCode, EVENT_TRIGGER_RELEASE))

\* the SDK reports a tag to the registered callback while it is inventorying
callbackIn(found) ==
  /\ sdkCallback
  /\ sdkInventorying
  /\ \E tagInfo \in found, em \in EmitOutcomes :
       Hook(callbackCall(tagInfo, em))

callback == callbackIn(TagsInMode(sdkMode))

\* one tag in the field, reported again and again
callbackSameTag == callbackIn({t \in TagInputs : t.epc = "E1"})

\* tags with an EPC, reported with the counts the SDK gives them
callbackCounted == callbackIn(CountedTags)

(* ------------------------------ event relay ----------------------------- *)
\* a subscription whose remove() leaves the listener on its channel
UnsubscribeKept(s, l) == s

\* EmitterSubscription.remove(): the listener is taken off its channel
Unsubscribe(s, l) == [s EXCEPT ![l] = NoChannel]

\* eventEmitter.addListener(channel, callback), the five add*Listener helpers
addListenerIn(channels) ==
  /\ ctx = "active"
  /\ cur[JS] = Idle
  /\ \E l \in Listeners, ch \in channels :
       /\ subs[l] = NoChannel
       /\ subs' = [subs EXCEPT ![l] = ch]
       /\ removedFrom' = [removedFrom EXCEPT ![l] = NoChannel]
  /\ Finish([NewCall("addListener", NoArg) EXCEPT !.outcome = "returned"])
  /\ UNCHANGED <<rfidReader, sdkInstances, sdkVars, ctx, histVars>>

addListener == addListenerIn(Channels)

\* addTagReadListener and addTriggerPressListener
addTagOrPressListener == addListenerIn({EVENT_TAG_READ, EVENT_TRIGGER_PRESS})

\* subscription.remove()
remove ==
  /\ ctx = "active"
  /\ cur[JS] = Idle
  /\ \E l \in Listeners :
       /\ subs[l] # NoChannel
       /\ subs' = Unsubscribe(subs, l)
       /\ removedFrom' = [removedFrom EXCEPT ![l] = subs[l]]
  /\ Finish([NewCall("remove", NoArg) EXCEPT !.outcome = "returned"])
  /\ UNCHANGED <<rfidReader, sdkInstances, sdkVars, ctx, histVars>>

\* ChainwayRFID.removeAllListeners: all five channels
removeAllListeners ==
  /\ ctx = "active"
  /\ cur[JS] = Idle
  /\ subs' = [l \in Listeners |-> NoChannel]
  /\ removedFrom' = [l \in Listeners |->
                       IF subs[l] # NoChannel THEN subs[l] ELSE removedFrom[l]]
  /\ Finish([NewCall("removeAllListeners", NoArg) EXCEPT !.outcome = "returned"])
  /\ UNCHANGED <<rfidReader, sdkInstances, sdkVars, ctx, histVars>>

\* the React context comes up, and is torn down with the application: the JS
\* instance and the listeners in it are gone
ContextReady ==
  /\ ctx = "starting"
  /\ ctx' = "active"
  /\ UNCHANGED <<rfidReader, sdkInstances, sdkVars, subs, removedFrom, histVars, last, orderVars, asyncVars>>

ContextDestroyed ==
  /\ ctx = "active"
  /\ ctx' = "destroyed"
  /\ subs' = [l \in Listeners |-> NoChannel]
  /\ removedFrom' = [l \in Listeners |-> NoChannel]
  /\ UNCHANGED <<rfidReader, sdkInstances, sdkVars, histVars, last, orderVars, asyncVars>>

(* ------------------- startInventory, statement by statement ------------ *)
\* the first startInventory as the module's thread runs it, up to the return
\* of startInventoryTag: from there the SDK's thread may call the callback
startBegin ==
  /\ JsCallPossible
  /\ pcStart = "idle"
  /\ ~sdkCallback
  /\ \E cb \in {"ok", "throw"}, r \in SdkOutcomes :
       /\ StartsSdk(cb, r)
       /\ IF rfidReader # NullRef /\ cb = "ok" /\ r = "ok"
          THEN /\ pcStart' = "started"
               /\ UNCHANGED <<last, orderVars>>
          ELSE /\ pcStart' = "idle"
               /\ Record(startInventoryCall(cb, r, "dropped"))
  /\ UNCHANGED <<rfidReader, sdkInstances, sdkMode, sdkFreq, ctx, subs, removedFrom, histVars,
                 nativeCalls, isReading, tags, reads, handled, doubleStart, sdkFailed>>

\* the rest of it: sendEvent(EVENT_INVENTORY_START) and promise.resolve(true)
startEnd ==
  /\ pcStart = "started"
  /\ pcStart' = "idle"
  /\ \E em \in EmitOutcomes : Record(startInventoryCall("ok", "ok", em))
  /\ UNCHANGED <<rfidReader, sdkInstances, sdkVars, ctx, subs, removedFrom, histVars,
                 nativeCalls, isReading, tags, reads, handled, doubleStart, sdkFailed>>

(* ------------------------- RFIDExample (client) ------------------------- *)
\* what the SDK does in the calls the example client makes
ClientSdkOutcomes == {"ok", "throw"}

\* JavaScript's String(n) and parseInt(s) on the counts that occur; a
\* negative number stands for NaN
JsString(n) ==
  CASE n = 0 -> "0" [] n = 1 -> "1" [] n = 2 -> "2" [] n = 3 -> "3" [] n = 4 -> "4"
    [] n = 5 -> "5" [] n = 6 -> "6" [] n = 7 -> "7" [] n = 8 -> "8" [] n = 9 -> "9"
    [] OTHER -> "NaN"
parseInt(str) ==
  CASE str = "0" -> 0 [] str = "1" -> 1 [] str = "2" -> 2 [] str = "3" -> 3 [] str = "4" -> 4
    [] str = "5" -> 5 [] str = "6" -> 6 [] str = "7" -> 7 [] str = "8" -> 8 [] str = "9" -> 9
    [] OTHER -> 0 - 1
\* count || '1': an undefined or empty count gives '1'
OrOne(count) == IF count \in {Absent, ""} THEN "1" ELSE count

\* the message that settles the promise of a call in the JS thread
Settlement(c, h) ==
  [name |-> "settled", n |-> 0, params |-> NoParams,
   then |-> [op |-> c.op, h |-> h, outcome |-> c.outcome, value |-> c.value]]

\* the events a call emitted, as messages to the JS thread
Emitted(c) ==
  [i \in 1..Len(c.emits) |->
     [name |-> c.emits[i].name, n |-> 0, params |-> c.emits[i].params, then |-> NoThen]]

\* the native module's thread comes to the call at the head of its queue
NextCall(op) == nativeCalls # <<>> /\ Head(nativeCalls).op = op

\* the call has run: its events, then its settlement, go to the JS thread
Ran(c) ==
  /\ last' = [c EXCEPT !.initOK = everInitOK, !.afterFree = freed]
  /\ queue' = [queue EXCEPT ![JS] = handOver(@ \o Emitted(c), Settlement(c, Head(nativeCalls).h))]
  /\ nativeCalls' = Tail(nativeCalls)
  /\ sdkFailed' = (sdkFailed \/ c.outcome # "resolved")
  /\ UNCHANGED <<traced, emitted, cur, received, owed, pcStart, isReading, tags, reads, handled>>

runIsInventorying ==
  /\ NextCall("isInventorying")
  /\ \E r \in ClientSdkOutcomes : Ran(isInventoryingCall(r))
  /\ UNCHANGED <<rfidReader, sdkInstances, sdkVars, ctx, subs, removedFrom, histVars, doubleStart>>

runStartInventory ==
  /\ NextCall("startInventory")
  /\ \E r \in ClientSdkOutcomes, em \in EmitOutcomes :
       /\ StartsSdk("ok", r)
       /\ doubleStart' = (doubleStart \/ (rfidReader # NullRef /\ sdkInventorying))
       /\ Ran(startInventoryCall("ok", r, em))
  /\ UNCHANGED <<rfidReader, sdkInstances, sdkMode, sdkFreq, ctx, subs, removedFrom, histVars>>

runStopInventory ==
  /\ NextCall("stopInventory")
  /\ \E r \in ClientSdkOutcomes, em \in EmitOutcomes :
       /\ sdkInventorying' = (sdkInventorying /\ ~(rfidReader # NullRef /\ r = "ok"))
       /\ Ran(stopInventoryCall(r, em))
  /\ UNCHANGED <<rfidReader, sdkInstances, sdkCallback, sdkMode, sdkFreq, ctx, subs, removedFrom,
                 histVars, doubleStart>>

\* the JS thread comes to a message of this kind at the head of its queue
NextMessage(name) == queue[JS] # <<>> /\ Head(queue[JS]).name = name
NextSettled(op, h) ==
  /\ NextMessage("settled")
  /\ Head(queue[JS]).then.op = op
  /\ Head(queue[JS]).then.h = h

\* the JS thread has run the handler of the message: what it changed in the
\* client and which call it handed to the native module
Handled(calls, reading, store, counts, triggers) ==
  /\ queue' = [queue EXCEPT ![JS] = Tail(@)]
  /\ nativeCalls' = nativeCalls \o calls
  /\ isReading' = reading
  /\ tags' = store
  /\ reads' = counts
  /\ handled' = handled \o triggers
  /\ UNCHANGED <<rfidReader, sdkInstances, sdkVars, ctx, subs, removedFrom, histVars, last,
                 traced, emitted, cur, received, owed, pcStart, doubleStart, sdkFailed>>

\* startReading up to its await: the store is cleared, startInventory called
StartReadingCall == <<[op |-> "startInventory", h |-> "startReading"]>>
\* stopReading up to its await
StopReadingCall == <<[op |-> "stopInventory", h |-> "stopReading"]>>

\* the trigger-press listener: ChainwayRFID.isInventorying() is called
pressListener ==
  /\ NextMessage(EVENT_TRIGGER_PRESS)
  /\ Handled(<<[op |-> "isInventorying", h |-> "press"]>>, isReading, tags, reads,
             <<EVENT_TRIGGER_PRESS>>)

\* .then(inventorying => { if (!inventorying) startReading() }), or .catch
pressThen ==
  /\ NextSettled("isInventorying", "press")
  /\ LET t == Head(queue[JS]).then IN
     IF t.outcome = "resolved" /\ t.value = "false"
     THEN Handled(StartReadingCall, isReading, <<>>, <<>>, <<>>)
     ELSE Handled(<<>>, isReading, tags, reads, <<>>)

\* the trigger-release listener
releaseListener ==
  /\ NextMessage(EVENT_TRIGGER_RELEASE)
  /\ Handled(<<[op |-> "isInventorying", h |-> "release"]>>, isReading, tags, reads,
             <<EVENT_TRIGGER_RELEASE>>)

\* .then(inventorying => { if (inventorying) stopReading() }), or .catch
releaseThen ==
  /\ NextSettled("isInventorying", "release")
  /\ LET t == Head(queue[JS]).then IN
     IF t.outcome = "resolved" /\ t.value = "true"
     THEN Handled(StopReadingCall, isReading, tags, reads, <<>>)
     ELSE Handled(<<>>, isReading, tags, reads, <<>>)

\* startReading after its await: setIsReading(true), or the catch's alert
startReadingThen ==
  /\ NextSettled("startInventory", "startReading")
  /\ Handled(<<>>, isReading \/ Head(queue[JS]).then.outcome = "resolved", tags, reads, <<>>)

\* stopReading after its await: setIsReading(false), or the catch's alert
stopReadingThen ==
  /\ NextSettled("stopInventory", "stopReading")
  /\ Handled(<<>>, isReading /\ Head(queue[JS]).then.outcome # "resolved", tags, reads, <<>>)

\* the inventory-start and inventory-stop listeners
startListener ==
  /\ NextMessage(EVENT_INVENTORY_START)
  /\ Handled(<<>>, TRUE, tags, reads, <<>>)

stopListener ==
  /\ NextMessage(EVENT_INVENTORY_STOP)
  /\ Handled(<<>>, FALSE, tags, reads, <<>>)

\* the tag store with this count under this epc
Stored(store, epc, count) ==
  [k \in DOMAIN store \cup {epc} |-> IF k = epc THEN count ELSE store[k]]

\* the tag-read listener: a tag already in the store is stored again with
\* the stored count plus one, a new one as it came
tagListener ==
  /\ NextMessage(EVENT_TAG_READ)
  /\ LET tag == Head(queue[JS]).params
         stored == IF tag.epc \in DOMAIN tags THEN parseInt(OrOne(tags[tag.epc])) ELSE 0
         count == IF tag.epc \in DOMAIN tags
                  THEN JsString(IF stored < 0 THEN stored ELSE stored + 1)
                  ELSE tag.count
         seen == IF tag.epc \in DOMAIN reads THEN reads[tag.epc] + 1 ELSE 1
     IN  Handled(<<>>, isReading, Stored(tags, tag.epc, count),
                 Stored(reads, tag.epc, seen), <<>>)

\* the Start Reading / Stop Reading button
buttonPress ==
  /\ emitted < MaxEvents
  /\ emitted' = emitted + 1
  /\ nativeCalls' = nativeCalls \o (IF isReading THEN StopReadingCall ELSE StartReadingCall)
  /\ tags' = IF isReading THEN tags ELSE <<>>
  /\ reads' = IF isReading THEN reads ELSE <<>>
  /\ UNCHANGED <<rfidReader, sdkInstances, sdkVars, ctx, subs, removedFrom, histVars, last,
                 traced, queue, cur, received, owed, pcStart, isReading, handled, doubleStart,
                 sdkFailed>>

\* the Clear Tags button, disabled while reading
clearTags ==
  /\ ~isReading
  /\ tags' = <<>>
  /\ reads' = <<>>
  /\ UNCHANGED <<rfidReader, sdkInstances, sdkVars, ctx, subs, removedFrom, histVars, last,
                 orderVars, pcStart, nativeCalls, isReading, handled, doubleStart, sdkFailed>>

(* ------------------------- listeners being run ------------------------- *)
\* a thread takes the next event waiting for it: the event is emitted to the
\* listeners subscribed to its channel at this moment
Take ==
  /\ \E t \in Threads :
       /\ cur[t] = Idle
       /\ queue[t] # <<>>
       /\ LET e == Head(queue[t]) IN
          /\ queue' = [queue EXCEPT ![t] = Tail(@)]
          /\ cur' = [cur EXCEPT ![t] = IF Subscribed(e.name) = {} THEN Idle
                                       ELSE [n |-> e.n, name |-> e.name,
                                             todo |-> Subscribed(e.name),
                                             active |-> NoListener]]
          /\ owed' = [l \in Listeners |->
                        IF l \in Subscribed(e.name)
                        THEN Append(owed[l], [name |-> e.name, n |-> e.n])
                        ELSE owed[l]]
  /\ UNCHANGED <<rfidReader, sdkInstances, sdkVars, ctx, subs, removedFrom, histVars, last,
                 traced, emitted, received, asyncVars>>

\* the thread calls one of the listeners of the event it took
Invoke ==
  /\ \E t \in Threads :
       /\ cur[t].active = NoListener
       /\ \E l \in cur[t].todo :
            cur' = [cur EXCEPT ![t].active = l, ![t].todo = @ \ {l}]
  /\ UNCHANGED <<rfidReader, sdkInstances, sdkVars, ctx, subs, removedFrom, histVars, last,
                 traced, emitted, queue, received, owed, asyncVars>>

\* the listener returns; after the last one the thread is free again
Return ==
  /\ \E t \in Threads :
       /\ cur[t].active # NoListener
       /\ received' = [received EXCEPT ![cur[t].active] =
                          Append(@, [name |-> cur[t].name, n |-> cur[t].n])]
       /\ cur' = [cur EXCEPT ![t] = IF cur[t].todo = {} THEN Idle
                                    ELSE [@ EXCEPT !.active = NoListener]]
  /\ UNCHANGED <<rfidReader, sdkInstances, sdkVars, ctx, subs, removedFrom, histVars, last,
                 traced, emitted, queue, owed, asyncVars>>

\* the calls of the facade, the hardware hooks and the context's life cycle
Adapter ==
  \/ init \/ free \/ getVersion \/ setPowerEdge \/ getPower
  \/ setFrequencyModeUSA \/ getFrequencyMode
  \/ startInventory \/ stopInventory \/ inventorySingleTag
  \/ readData \/ writeData \/ writeEPC \/ setFilter \/ lockTag \/ killTag
  \/ isInventorying \/ setEPCMode \/ setEPCAndTIDMode

Next ==
  \/ Adapter
  \/ onKeyDown \/ onKeyUp \/ callback
  \/ ContextReady \/ ContextDestroyed

\* every call of the adapter, with no listener subscribed
Spec == Init /\ [][Next]_vars

\* the calls that emit or that open and close the reader, with listeners
\* coming and going
NextRelay ==
  \/ init \/ free \/ startInventory \/ stopInventory
  \/ onKeyDown \/ onKeyUp \/ callback
  \/ addListener \/ remove \/ removeAllListeners
  \/ ContextReady \/ ContextDestroyed

SpecRelay == Init /\ [][NextRelay]_vars

\* the emitting operations with every emission followed from the emitting
\* thread to the listeners' invocations
NextOrder ==
  \/ callbackSameTag \/ onKeyDown
  \/ addTagOrPressListener \/ remove
  \/ Take \/ Invoke \/ Return

SpecOrder == InitOrder /\ [][NextOrder]_vars

\* an initialized reader with the React context up and no inventory yet
InitSession ==
  /\ rfidReader = Instance
  /\ sdkInstances = {Instance}
  /\ sdkInventorying = FALSE
  /\ sdkCallback = FALSE
  /\ sdkMode = MODE_DEFAULT
  /\ sdkFreq = FreqDefault
  /\ ctx = "active"
  /\ subs = [l \in Listeners |-> NoChannel]
  /\ removedFrom = [l \in Listeners |-> NoChannel]
  /\ everInitOK = TRUE
  /\ freed = FALSE
  /\ last = [initCall("ok", "ok") EXCEPT !.initOK = FALSE]
  /\ traced = TRUE
  /\ emitted = 0
  /\ queue = [t \in Threads |-> <<>>]
  /\ cur = [t \in Threads |-> Idle]
  /\ received = [l \in Listeners |-> <<>>]
  /\ owed = [l \in Listeners |-> <<>>]
  /\ Quiet

\* the first inventory session: startInventory in the module's thread next
\* to the callback in the SDK's thread
NextSession == startBegin \/ startEnd \/ callback \/ ContextDestroyed

SpecSession == InitSession /\ [][NextSession]_vars

\* the example client mounted and initializeRFID done: reader initialized,
\* no inventory, the five listeners added
InitClient ==
  /\ rfidReader = Instance
  /\ sdkInstances = {Instance}
  /\ sdkInventorying = FALSE
  /\ sdkCallback = FALSE
  /\ sdkMode = MODE_EPC_TID
  /\ sdkFreq = FREQ_USA
  /\ ctx = "active"
  /\ subs = [l \in Listeners |-> NoChannel]
  /\ removedFrom = [l \in Listeners |-> NoChannel]
  /\ everInitOK = TRUE
  /\ freed = FALSE
  /\ last = [setEPCAndTIDModeCall("ok") EXCEPT !.initOK = TRUE]
  /\ traced = TRUE
  /\ emitted = 0
  /\ queue = [t \in Threads |-> <<>>]
  /\ cur = [t \in Threads |-> Idle]
  /\ received = [l \in Listeners |-> <<>>]
  /\ owed = [l \in Listeners |-> <<>>]
  /\ Quiet

\* the trigger keys and the button of the example client, with its promises
NextClient ==
  \/ onKeyDown \/ onKeyUp \/ buttonPress
  \/ pressListener \/ pressThen \/ releaseListener \/ releaseThen
  \/ startReadingThen \/ stopReadingThen \/ startListener \/ stopListener
  \/ runIsInventorying \/ runStartInventory \/ runStopInventory

SpecClient == InitClient /\ [][NextClient]_vars

\* the example client mounted again while an inventory it left running
\* goes on: tags come in, the store is filled and cleared
InitStore ==
  /\ rfidReader = Instance
  /\ sdkInstances = {Instance}
  /\ sdkInventorying = TRUE
  /\ sdkCallback = TRUE
  /\ sdkMode = MODE_EPC_TID
  /\ sdkFreq = FREQ_USA
  /\ ctx = "active"
  /\ subs = [l \in Listeners |-> NoChannel]
  /\ removedFrom = [l \in Listeners |-> NoChannel]
  /\ everInitOK = TRUE
  /\ freed = FALSE
  /\ last = [startInventoryCall("ok", "ok", "dropped") EXCEPT !.initOK = TRUE]
  /\ traced = TRUE
  /\ emitted = 0
  /\ queue = [t \in Threads |-> <<>>]
  /\ cur = [t \in Threads |-> Idle]
  /\ received = [l \in Listeners |-> <<>>]
  /\ owed = [l \in Listeners |-> <<>>]
  /\ Quiet

NextStore == callbackCounted \/ tagListener \/ clearTags

SpecStore == InitStore /\ [][NextStore]_vars

\* the power set and read back, over the whole range and past its limits
NextPower ==
  \/ init \/ free \/ setPower \/ getPower
  \/ ContextReady \/ ContextDestroyed

SpecPower == Init /\ [][NextPower]_vars

\* the frequency region set and read back, over every published region
NextFreq ==
  \/ init \/ free \/ setFrequencyMode \/ getFrequencyMode \/ getPower
  \/ ContextReady \/ ContextDestroyed

SpecFreq == Init /\ [][NextFreq]_vars

(* ------------------------------- claims --------------------------------- *)
\* C1: a setPower whose power is below 0 or above 30 is rejected with the
\* validation error, and neither the native setPower nor the SDK is entered.
C1_OutOfRangeRejected ==
  (last.op = "setPower" /\ (last.arg < MinPower \/ last.arg > MaxPower))
    => /\ last.outcome = "rejected"
       /\ last.code = "VALIDATION"
       /\ ~last.native
       /\ last.sdk = <<>>

\* an out-of-range power was tried on a reader whose handle is set
C1_Witness ==
  /\ last.op = "setPower"
  /\ last.arg = MaxPower + 1
  /\ rfidReader = Instance
  /\ last.outcome = "rejected"

\* C2: a setPower whose power is in 0..30 passes the validation, and the
\* native setPower, and the SDK's when the handle is set, receive that number.
C2_InRangeForwarded ==
  (last.op = "setPower" /\ last.arg \in MinPower..MaxPower)
    => /\ last.native
       /\ last.code # "VALIDATION"
       /\ last.nativeArg = last.arg
       /\ rfidReader # NullRef => last.sdk = <<[m |-> "setPower", a |-> last.arg]>>

\* a power inside the range, not the largest, reached the SDK
C2_Witness ==
  /\ last.op = "setPower"
  /\ last.arg = MinPower + 1
  /\ rfidReader = Instance
  /\ last.outcome = "resolved"
  /\ Len(last.sdk) = 1

\* C3: while no init has succeeded, every native capability call other than
\* init rejects with NOT_INITIALIZED.
C3_NotInitializedBeforeInit ==
  (last.native /\ last.op # "init" /\ ~last.initOK)
    => (last.outcome = "rejected" /\ last.code = "NOT_INITIALIZED")

\* C4: after a free that resolved true and before the next init, every native
\* call other than init rejects with NOT_INITIALIZED.
C4_NotInitializedAfterFree ==
  (last.native /\ last.op # "init" /\ last.afterFree)
    => (last.outcome = "rejected" /\ last.code = "NOT_INITIALIZED")

\* the SDK's init was called and returned false
InitReturnedFalse == last.op = "init" /\ Len(last.sdk) = 2 /\ last.ret = "fail"

SentinelError ==
  [init |-> "INIT_FAILED", getVersion |-> "VERSION_ERROR", readData |-> "READ_ERROR",
   inventorySingleTag |-> "NO_TAG", startInventory |-> "START_ERROR",
   stopInventory |-> "STOP_ERROR"]
BooleanOps ==
  {"free", "setPower", "setFrequencyMode", "writeData", "writeEPC", "setFilter",
   "lockTag", "killTag", "setEPCMode", "setEPCAndTIDMode"}

\* the SDK call of the last native call returned its failure sentinel
SentinelReturned == last.native /\ last.ret = "fail"

\* C6, as stated: when the SDK call returns its failure sentinel, the promise
\* is rejected and never resolved.
C6_Original == SentinelReturned => last.outcome = "rejected"

\* C6, amended: on a failure sentinel, init, getVersion, readData,
\* inventorySingleTag, startInventory and stopInventory reject with their named
\* error and do not resolve; the boolean methods resolve false and do not reject.
C6_SentinelOutcome ==
  SentinelReturned =>
    /\ last.settles = 1
    /\ last.op \in DOMAIN SentinelError =>
         (last.outcome = "rejected" /\ last.code = SentinelError[last.op])
    /\ last.op \in BooleanOps =>
         (last.outcome = "resolved" /\ last.value = "false")
    /\ last.op \in (DOMAIN SentinelError) \cup BooleanOps

C6_Witness ==
  /\ SentinelReturned
  /\ last.op = "killTag"
  /\ last.outcome = "resolved"
  /\ last.value = "false"

\* the error each method other than init names in its one catch block
CatchError ==
  [free |-> "FREE_ERROR", getVersion |-> "VERSION_ERROR", setPower |-> "POWER_ERROR",
   getPower |-> "POWER_ERROR", setFrequencyMode |-> "FREQUENCY_ERROR",
   getFrequencyMode |-> "FREQUENCY_ERROR", startInventory |-> "START_ERROR",
   stopInventory |-> "STOP_ERROR", inventorySingleTag |-> "READ_ERROR",
   readData |-> "READ_ERROR", writeData |-> "WRITE_ERROR", writeEPC |-> "WRITE_ERROR",
   setFilter |-> "FILTER_ERROR", lockTag |-> "LOCK_ERROR", killTag |-> "KILL_ERROR",
   isInventorying |-> "STATUS_ERROR", setEPCMode |-> "MODE_ERROR",
   setEPCAndTIDMode |-> "MODE_ERROR"]

\* the SDK call of the last native call threw a ConfigurationException
ConfigFault == last.native /\ last.ret = "throwConfig"

\* C7, as stated: any operation whose SDK call throws a ConfigurationException
\* rejects with CONFIG_ERROR.
C7_Original == ConfigFault => (last.outcome = "rejected" /\ last.code = "CONFIG_ERROR")

\* C7, amended: init rejects a ConfigurationException with CONFIG_ERROR; every
\* other operation rejects it with the error of its own catch block.
C7_ConfigFault ==
  ConfigFault =>
    /\ last.outcome = "rejected"
    /\ last.op = "init" => last.code = "CONFIG_ERROR"
    /\ last.op # "init" => (last.op \in DOMAIN CatchError /\ last.code = CatchError[last.op])

C7_Witness ==
  /\ ConfigFault
  /\ last.op = "startInventory"
  /\ last.code = "START_ERROR"

\* C8: a startInventory that resolves (the SDK's start returned true) emits
\* inventory-start once, to every listener subscribed to that channel at that
\* moment; one that rejects emits nothing.
C8_StartEvent ==
  last.op = "startInventory" =>
    /\ last.outcome \in {"resolved", "rejected"}
    /\ last.outcome = "resolved" =>
         /\ last.value = "true"
         /\ last.ret = "ok"
         /\ Len(last.emits) = 1
         /\ last.emits[1].name = EVENT_INVENTORY_START
         /\ ctx = "active" => last.emits[1].to = Subscribed(EVENT_INVENTORY_START)
    /\ last.outcome = "rejected" => last.emits = <<>>

\* a start that succeeded with both listeners on the inventory-start channel
C8_Witness ==
  /\ last.op = "startInventory"
  /\ last.outcome = "resolved"
  /\ Len(last.emits) = 1
  /\ last.emits[1].to = Listeners

\* C9: a stopInventory emits inventory-stop once exactly when the SDK's
\* stopInventory returned true, and then resolves true; otherwise it rejects
\* with STOP_ERROR or NOT_INITIALIZED and emits nothing.
C9_StopEvent ==
  last.op = "stopInventory" =>
    LET sdkTrue == Len(last.sdk) = 1 /\ last.ret = "ok" IN
    /\ sdkTrue => /\ Len(last.emits) = 1
                  /\ last.emits[1].name = EVENT_INVENTORY_STOP
                  /\ last.outcome = "resolved"
                  /\ last.value = "true"
    /\ ~sdkTrue => /\ last.emits = <<>>
                   /\ last.outcome = "rejected"
                   /\ last.code \in {"STOP_ERROR", "NOT_INITIALIZED"}

\* C10: no event reaches a listener while no init has succeeded.
C10_NoEventBeforeInit ==
  \A i \in 1..Len(last.emits) : last.emits[i].to # {} => last.initOK

\* a payload's epc is a string with something in it
NonEmptyEpc(map) == map.epc \notin {"", Absent, NullStr}

\* C11: every tag-read payload, and every tag inventorySingleTag resolves,
\* has a non-empty epc, whatever tag the SDK handed over.
C11_EpcNonEmpty ==
  /\ \A i \in 1..Len(last.emits) :
       last.emits[i].name = EVENT_TAG_READ => NonEmptyEpc(last.emits[i].params)
  /\ (last.op = "inventorySingleTag" /\ last.outcome = "resolved") => NonEmptyEpc(last.tag)

\* C12: with the SDK's mode on EPC only, the tid and user of every tag-read
\* payload are empty strings.
C12_EpcModeHidesTidUser ==
  (last.op = "callback" /\ sdkMode = MODE_EPC) =>
    \A i \in 1..Len(last.emits) :
      last.emits[i].name = EVENT_TAG_READ =>
        (last.emits[i].params.tid = "" /\ last.emits[i].params.user = "")

\* C13 as stated: isInventorying called right after stopInventory resolves
\* false, from any state.
C13_Original ==
  (last.op = "isInventorying" /\ last.prev.op = "stopInventory") =>
    (last.outcome = "resolved" /\ last.value = "false")

\* C13: isInventorying called right after a stopInventory that resolved true
\* resolves false whenever it resolves.
C13_StoppedThenIdle ==
  (last.op = "isInventorying" /\ last.prev.op = "stopInventory" /\ last.prev.ok
     /\ last.outcome = "resolved") => last.value = "false"

C13_Witness ==
  /\ last.op = "isInventorying" /\ last.prev.op = "stopInventory" /\ last.prev.ok
  /\ last.outcome = "resolved" /\ last.value = "false"
  /\ sdkCallback /\ last.initOK

C17_NoContextNoError ==
  /\ last.op \in {"onKeyDown", "onKeyUp"} => ~last.escaped
  /\ (last.op \in {"startInventory", "stopInventory"} /\ last.sdk # <<>> /\ last.ret = "ok")
       => (last.outcome = "resolved" /\ last.value = "true")

TriggerCodes == {KEY_TRIGGER, KEY_TRIGGER_LEFT, KEY_TRIGGER_RIGHT}

\* C18: a key-down (key-up) of 280, 293 or 294 makes exactly one trigger-press
\* (trigger-release) emission with no payload, dropped when there is no React
\* context, and the key is consumed; any other code makes no emission and
\* goes to the default handler.
C18_TriggerKeys ==
  last.op \in {"onKeyDown", "onKeyUp"} =>
    IF last.arg \in TriggerCodes
    THEN /\ last.value = "true"
         /\ Len(last.emits) + last.dropped = 1
         /\ \A i \in 1..Len(last.emits) :
              /\ last.emits[i].name = (IF last.op = "onKeyDown" THEN EVENT_TRIGGER_PRESS
                                       ELSE EVENT_TRIGGER_RELEASE)
              /\ last.emits[i].params = NoParams
    ELSE /\ last.value = "super"
         /\ last.emits = <<>>
         /\ last.dropped = 0

C18_Witness ==
  /\ last.op = "onKeyUp" /\ last.arg = KEY_TRIGGER_RIGHT
  /\ Len(last.emits) = 1 /\ last.emits[1].to = Listeners

\* C20: after any init and free calls at most one reader object exists, the
\* adapter's handle is null or that object, and every init whose getInstance
\* returned left the handle on that same object.
C20_OneReaderHandle ==
  /\ Cardinality(sdkInstances) <= 1
  /\ rfidReader \in {NullRef} \cup sdkInstances
  /\ (last.op = "init" /\ Len(last.sdk) = 2) => sdkInstances = {rfidReader}

\* an init repeated after a successful one with no free in between
C20_Witness ==
  /\ last.op = "init" /\ last.initOK /\ ~last.afterFree
  /\ last.outcome = "resolved" /\ rfidReader = Instance

\* C14: a listener whose subscription was removed receives no later event of
\* that channel, and every listener still subscribed to the channel of an
\* emission receives it.
C14_RemovedListenerSilent ==
  \A i \in 1..Len(last.emits) :
    /\ \A l \in Listeners :
         removedFrom[l] = last.emits[i].name => l \notin last.emits[i].to
    /\ ctx = "active" =>
         \A l \in Listeners : subs[l] = last.emits[i].name => l \in last.emits[i].to

\* a tag-read reaches the listener still subscribed and not the one that
\* removed its tag-read subscription
C14_Witness ==
  /\ last.op = "callback" /\ Len(last.emits) = 1
  /\ removedFrom["L1"] = EVENT_TAG_READ /\ subs["L2"] = EVENT_TAG_READ
  /\ last.emits[1].to = {"L2"}

\* the events of a sequence are in the order of their emission
InOrder(seq) == \A i, j \in 1..Len(seq) : i < j => seq[i].n < seq[j].n

IsPrefix(a, b) == Len(a) <= Len(b) /\ \A i \in 1..Len(a) : a[i] = b[i]

\* C16: each listener is run with every event emitted to its channel while it
\* is subscribed, in the order of emission, however many listeners share the
\* channel.
C16_EveryEmissionInOrder ==
  \A l \in Listeners :
    /\ InOrder(owed[l])
    /\ IsPrefix(received[l], owed[l])
    /\ (cur[JS] = Idle /\ queue[JS] = <<>>) => received[l] = owed[l]

\* two listeners of the tag-read channel have both been run with two tags
C16_Witness ==
  /\ subs["L1"] = EVENT_TAG_READ /\ subs["L2"] = EVENT_TAG_READ
  /\ Len(received["L1"]) >= 2 /\ received["L2"] = received["L1"]
  /\ \A i \in 1..Len(received["L1"]) : received["L1"][i].name = EVENT_TAG_READ

\* the listener invocations under way
Running == {t \in Threads : cur[t].active # NoListener}

TagReads(seq) == SelectSeq(seq, LAMBDA e : e.name = EVENT_TAG_READ)

TagRecords == {createTagMap(t) : t \in {u \in TagInputs : u.ref # "null"}}

\* C21: with the handle set, inventorySingleTag resolves the record built
\* from the SDK's tag when the SDK returned one and rejects with NO_TAG when
\* it returned null; it never resolves an empty or null record.
C21_SingleTagOrNoTag ==
  (last.op = "inventorySingleTag" /\ last.sdk # <<>>) =>
    /\ last.ret = "ok" => (last.outcome = "resolved" /\ last.tag \in TagRecords)
    /\ last.ret = "fail" => (last.outcome = "rejected" /\ last.code = "NO_TAG")
    /\ last.outcome = "resolved" => (last.tag \in TagRecords /\ last.tag.epc # Absent)

C21_Witness ==
  /\ last.op = "inventorySingleTag" /\ last.initOK
  /\ last.ret = "fail" /\ last.code = "NO_TAG"

\* the operations of the adapter
AdapterOps == {"init"} \cup DOMAIN CatchError

\* the SDK call of the last native call threw
SdkThrew == last.native /\ last.ret \in Throws

\* C22: an exception of the SDK call is caught in the operation and becomes
\* one rejection with CONFIG_ERROR or the operation's own error; no exception
\* leaves an adapter operation.
C22_SdkFaultsCaught ==
  last.op \in AdapterOps =>
    /\ ~last.escaped
    /\ SdkThrew =>
         /\ last.outcome = "rejected"
         /\ last.code \in {"CONFIG_ERROR",
                          IF last.op = "init" THEN "INIT_ERROR" ELSE CatchError[last.op]}

C22_Witness ==
  /\ last.op = "readData" /\ last.ret = "throw"
  /\ last.outcome = "rejected" /\ last.code = "READ_ERROR"

\* C23: every call of an adapter operation settles its promise exactly once:
\* resolved or rejected, never pending, never settled again.
C23_SettledOnce ==
  last.op \in AdapterOps =>
    (last.settles = 1 /\ last.outcome \in {"resolved", "rejected"})

\* a stopInventory whose emission threw after the SDK had stopped
C23_Witness ==
  /\ last.op = "stopInventory" /\ last.ret = "ok"
  /\ last.outcome = "rejected" /\ last.settles = 1

\* C24: no call of an operation invokes an SDK method more than once,
\* whether the SDK call succeeded, returned its sentinel or threw.
C24_NoRetry ==
  \A i, j \in 1..Len(last.sdk) : last.sdk[i].m = last.sdk[j].m => i = j

C24_Witness ==
  /\ last.op = "writeData" /\ last.ret = "fail" /\ Len(last.sdk) = 1

\* C28: a call rejected with NOT_INITIALIZED has invoked no SDK method and
\* emitted no event, and the step that made it left the handle, the
\* registered callback and the SDK as they were.
C28_NotInitializedFrame ==
  [][(last'.outcome = "rejected" /\ last'.code = "NOT_INITIALIZED") =>
       /\ last'.sdk = <<>>
       /\ last'.emits = <<>>
       /\ rfidReader' = rfidReader
       /\ sdkInstances' = sdkInstances
       /\ sdkCallback' = sdkCallback
       /\ sdkInventorying' = sdkInventorying]_vars

C28_Witness ==
  /\ last.op = "startInventory" /\ last.outcome = "rejected"
  /\ last.code = "NOT_INITIALIZED" /\ ~sdkCallback /\ rfidReader = NullRef

\* C29: every run of the inventory callback makes exactly one tag-read
\* emission, however many startInventory calls came before.
C29_OneTagReadPerCallback ==
  last.op = "callback" =>
    (Len(last.emits) = 1 /\ last.emits[1].name = EVENT_TAG_READ)

\* C26: no tag-read event is emitted before the inventory-start event of
\* the session whose callback reported the tag.
C26_StartBeforeTags ==
  \A j \in 1..Len(queue[JS]) :
    queue[JS][j].name = EVENT_TAG_READ =>
      \E i \in 1..(j - 1) : queue[JS][i].name = EVENT_INVENTORY_START

\* C25: the SDK's startInventoryTag is never called while an inventory is
\* running, whatever the order of the example client's trigger events,
\* button presses and promises.
C25_NoStartWhileInventorying == ~doubleStart

\* C27: after one trigger press and then one release, once both are handled,
\* every promise has settled and no SDK call failed, the reader is not
\* inventorying.
C27_PressReleaseEndsStopped ==
  (/\ handled = <<EVENT_TRIGGER_PRESS, EVENT_TRIGGER_RELEASE>>
   /\ emitted = 2
   /\ queue[JS] = <<>>
   /\ nativeCalls = <<>>
   /\ ~sdkFailed) => ~sdkInventorying

\* C30: the store has one entry for each epc with a tag-read event handled
\* since the last clear, and its count is the number of those events.
C30_StoreCounts ==
  /\ DOMAIN tags = DOMAIN reads
  /\ \A epc \in DOMAIN tags : tags[epc] = JsString(reads[epc])

====
